---- MODULE Spec2Model ----
(***************************************************************************)
(* Model of src/app.py: extract(), the helpers it calls, and the upload     *)
(* handler that consumes its result.                                        *)
(*                                                                          *)
(* Text is a sequence of one-character tokens.  Hebrew letters are written  *)
(* by name ("shin", "lamed", "bet", ...; "memf" and "nunf" are the final    *)
(* forms), the other characters as "sp" (space), "nl" (\n), "cr" (\r),      *)
(* "nis" (the shekel sign), "quote" (the double quote), the digits "0".."9",*)
(* ",", ".", "%", "-", "_" and Latin letters as themselves.  A sequence is   *)
(* in storage order, exactly as Python indexes the str.                     *)
(*                                                                          *)
(* None is the one-token sequence <<"None">>, which no str can equal.       *)
(* A float is held as an integer count of hundredths (1000.0 is 100000).    *)
(***************************************************************************)
EXTENDS Integers, Sequences, FiniteSets, TLC

\* ------------------------------------------------------------------------
\* Python str primitives
\* ------------------------------------------------------------------------

None == <<"None">>

\* truthiness of a cell (`if c`, `if h`, `if cell`, any(row)): None and '' are falsy
Truthy(c) == c /= None /\ c /= <<>>

\* `p in s` for two strs
Contains(s, p) == \E i \in 0..(Len(s) - Len(p)) : SubSeq(s, i + 1, i + Len(p)) = p

\* s[::-1]
Reverse(s) == [i \in 1..Len(s) |-> s[Len(s) + 1 - i]]

\* the characters str.split() and str.strip() treat as whitespace
IsSpace(c) == c \in {"sp", "nl", "cr"}

\* s.replace('\n', ' ').replace('\r', ' ')
ReplaceNewlines(s) == [i \in 1..Len(s) |-> IF s[i] \in {"nl", "cr"} THEN "sp" ELSE s[i]]

\* s.lstrip()
RECURSIVE LStrip(_)
LStrip(s) == IF s /= <<>> /\ IsSpace(Head(s)) THEN LStrip(Tail(s)) ELSE s

\* s.strip()
Strip(s) == Reverse(LStrip(Reverse(LStrip(s))))

\* ' '.join(s.split()): runs of whitespace become one space, none at the ends
RECURSIVE CollapseFrom(_, _)
CollapseFrom(s, acc) ==
    IF s = <<>> THEN acc
    ELSE IF IsSpace(Head(s))
         THEN CollapseFrom(Tail(s),
                           IF acc = <<>> \/ acc[Len(acc)] = "sp" THEN acc ELSE Append(acc, "sp"))
         ELSE CollapseFrom(Tail(s), Append(acc, Head(s)))

NormalizeSpace(s) ==
    LET c == CollapseFrom(s, <<>>)
    IN  IF c /= <<>> /\ c[Len(c)] = "sp" THEN SubSeq(c, 1, Len(c) - 1) ELSE c

\* s.replace(ch, '') for the characters in drop
RECURSIVE RemoveChars(_, _)
RemoveChars(s, drop) ==
    IF s = <<>> THEN <<>>
    ELSE IF Head(s) \in drop THEN RemoveChars(Tail(s), drop)
         ELSE <<Head(s)>> \o RemoveChars(Tail(s), drop)

\* ' '.join(str(c) for c in cells if c)
RECURSIVE JoinTruthy(_)
JoinTruthy(cells) ==
    IF cells = <<>> THEN <<>>
    ELSE LET rest == JoinTruthy(Tail(cells))
         IN  IF ~Truthy(Head(cells)) THEN rest
             ELSE IF \A i \in 2..Len(cells) : ~Truthy(cells[i]) THEN Head(cells)
                  ELSE Head(cells) \o <<"sp">> \o rest

\* ------------------------------------------------------------------------
\* parse_num
\* ------------------------------------------------------------------------

Digits == {"0", "1", "2", "3", "4", "5", "6", "7", "8", "9"}

DigitValue(c) ==
    CASE c = "0" -> 0 [] c = "1" -> 1 [] c = "2" -> 2 [] c = "3" -> 3 [] c = "4" -> 4
      [] c = "5" -> 5 [] c = "6" -> 6 [] c = "7" -> 7 [] c = "8" -> 8 [] c = "9" -> 9

\* the value of a run of decimal digits
RECURSIVE DigitsValue(_)
DigitsValue(s) ==
    IF s = <<>> THEN 0 ELSE 10 * DigitsValue(SubSeq(s, 1, Len(s) - 1)) + DigitValue(s[Len(s)])

AllDigits(s) == \A i \in 1..Len(s) : s[i] \in Digits

\* position of the first "." of s, 0 when there is none
DotAt(s) == IF \E i \in 1..Len(s) : s[i] = "."
            THEN CHOOSE i \in 1..Len(s) : s[i] = "." /\ \A j \in 1..(i - 1) : s[j] /= "."
            ELSE 0

\* float(s) accepts s: an optional sign, then digits with at most one "." and
\* at least one digit.  (Decimal literals of at most two fractional digits;
\* exponents, "inf", "nan" and "_" need letters the cells modelled never carry.)
IsFloat(s) ==
    LET u == IF s /= <<>> /\ s[1] \in {"-", "+"} THEN Tail(s) ELSE s
        d == DotAt(u)
        ip == IF d = 0 THEN u ELSE SubSeq(u, 1, d - 1)
        fp == IF d = 0 THEN <<>> ELSE SubSeq(u, d + 1, Len(u))
    IN  /\ AllDigits(ip)
        /\ AllDigits(fp)
        /\ Len(ip) + Len(fp) > 0
        /\ Len(fp) <= 2

\* float(s) in hundredths, for s that IsFloat accepts
FloatValue(s) ==
    LET neg == s /= <<>> /\ s[1] = "-"
        u == IF s /= <<>> /\ s[1] \in {"-", "+"} THEN Tail(s) ELSE s
        d == DotAt(u)
        ip == IF d = 0 THEN u ELSE SubSeq(u, 1, d - 1)
        fp == IF d = 0 THEN <<>> ELSE SubSeq(u, d + 1, Len(u))
        frac == IF Len(fp) = 0 THEN 0
                ELSE IF Len(fp) = 1 THEN 10 * DigitsValue(fp) ELSE DigitsValue(fp)
        mag == 100 * DigitsValue(ip) + frac
    IN  IF neg THEN 0 - mag ELSE mag

\* parse_num(s): hundredths; 0 for None, for '' after cleaning, and on ValueError
parse_num(s) ==
    IF s = None THEN 0
    ELSE LET cleaned == Strip(RemoveChars(s, {",", "nis", "%"}))
         IN  IF cleaned = <<>> THEN 0
             ELSE IF IsFloat(cleaned) THEN FloatValue(cleaned) ELSE 0

\* ------------------------------------------------------------------------
\* fix_hebrew
\* ------------------------------------------------------------------------

reversed_patterns ==
    { <<"memf", "ayin">>,
      <<"bet", "lamed", "shin">>,
      <<"he", "zayin", "vav", "het">>,
      <<"memf", "vav", "kaf", "samekh">>,
      <<"resh", "bet", "tet", "tsadi", "mem">>,
      <<"nunf", "vav", "bet", "shin", "het">>,
      <<"ayin", "vav", "tsadi", "yod", "bet">> }

fix_hebrew(s) ==
    IF ~Truthy(s) THEN s
    ELSE LET text == NormalizeSpace(ReplaceNewlines(Strip(s)))
         IN  IF \E p \in reversed_patterns : Contains(text, p) THEN Reverse(text) ELSE text

\* ------------------------------------------------------------------------
\* extract_company
\* ------------------------------------------------------------------------

\* str.upper() on the Latin letters of the alphabet; every other token is unchanged
UpperChar(c) ==
    CASE c = "k" -> "K" [] c = "o" -> "O" [] c = "t" -> "T" [] c = "a" -> "A"
      [] c = "b" -> "B" [] c = "c" -> "C" [] c = "l" -> "L" [] OTHER -> c

Upper(s) == [i \in 1..Len(s) |-> UpperChar(s[i])]

kot_patterns ==
    { <<"qof", "yod", "yod", ".", "alef", "vav", ".", "tet", "yod">>,
      <<"qof", "yod", ".", "alef", "vav", ".", "tet", "yod">>,
      <<"K", "O", "T">>,
      <<"yod", "tet", ".", "vav", "alef", ".", "yod", "yod", "qof">>,
      <<"yod", "tet", ".", "vav", "alef", ".", "yod", "qof">> }

CompanyKOT ==
    <<"qof", "yod", "yod", ".", "alef", "vav", ".", "tet", "yod", "sp",
      "alef", "dalet", "resh", "yod", "kaf", "lamed", "yod", "memf">>

CompanyYaron == <<"yod", "resh", "vav", "nunf", "sp", "alef", "lamed", "yod", "alef", "bet">>

CompanyYaronReversed ==
    <<"bet", "alef", "yod", "lamed", "alef", "sp", "nunf", "vav", "resh", "yod">>

CompanyUnknown == <<"U", "n", "k", "n", "o", "w", "n">>

extract_company(text) ==
    IF \E p \in kot_patterns : Contains(text, p) \/ Contains(Upper(text), p)
    THEN CompanyKOT
    ELSE IF Contains(text, CompanyYaron) \/ Contains(text, CompanyYaronReversed)
         THEN CompanyYaron
         ELSE CompanyUnknown

\* ------------------------------------------------------------------------
\* extract_vat_total
\* ------------------------------------------------------------------------

\* the word the three patterns look for ("payable")
Payable == <<"lamed", "tav", "shin", "lamed", "vav", "memf">>

\* [\d,]
NumChars == Digits \cup {","}

\* s[j], or "eof" past the end of s
At(s, j) == IF j \in 1..Len(s) THEN s[j] ELSE "eof"

\* first position >= j whose character is not in set (Len(s) + 1 when none):
\* where a greedy `x*` over set stops
RunEnd(s, j, set) ==
    CHOOSE e \in j..(Len(s) + 1) :
        /\ \A k \in j..(e - 1) : s[k] \in set
        /\ At(s, e) \notin set

\* end (exclusive) of the greedy match of [\d,]+\.?\d* at j, where s[j] is in [\d,]
NumberEnd(s, j) ==
    LET e1 == RunEnd(s, j, NumChars)
    IN  IF At(s, e1) = "." THEN RunEnd(s, e1 + 1, Digits) ELSE e1

HasAt(s, i, w) == i >= 1 /\ i + Len(w) - 1 <= Len(s) /\ SubSeq(s, i, i + Len(w) - 1) = w

\* group(1) of <before>\s*([\d,]+\.?\d*)\s*<after> matched at i, or None.  Every
\* character a quantifier could give back is one the next element cannot take,
\* so the greedy parse is the only candidate.
DelimitedAt(s, i, before, after) ==
    IF ~HasAt(s, i, before) THEN None
    ELSE LET j == RunEnd(s, i + Len(before), {"sp", "nl", "cr"})
         IN  IF At(s, j) \notin NumChars THEN None
             ELSE LET e == NumberEnd(s, j)
                      w == RunEnd(s, e, {"sp", "nl", "cr"})
                  IN  IF HasAt(s, w, after) THEN SubSeq(s, j, e - 1) ELSE None

\* group(1) of r'סה.כ.*?לתשלום.*?([\d,]+\.?\d*)' matched at i, or None: "." is any
\* character but \n, both .*? are lazy
TotalPayableAt(s, i) ==
    IF ~(HasAt(s, i, <<"samekh", "he">>) /\ At(s, i + 2) \notin {"nl", "eof"}
         /\ At(s, i + 3) = "kaf")
    THEN None
    ELSE LET SameLine(a, b) == \A k \in a..b : s[k] /= "nl"
             Ends(p) == {q \in (p + Len(Payable))..Len(s) :
                            s[q] \in NumChars /\ SameLine(p + Len(Payable), q - 1)}
             Starts == {p \in (i + 4)..Len(s) :
                            HasAt(s, p, Payable) /\ SameLine(i + 4, p - 1) /\ Ends(p) /= {}}
         IN  IF Starts = {} THEN None
             ELSE LET p == CHOOSE x \in Starts : \A y \in Starts : x <= y
                      q == CHOOSE x \in Ends(p) : \A y \in Ends(p) : x <= y
                  IN  SubSeq(s, q, NumberEnd(s, q) - 1)

\* re.search: group(1) at the leftmost position where the pattern matches, or None
SearchDelimited(s, before, after) ==
    LET hits == {i \in 1..Len(s) : DelimitedAt(s, i, before, after) /= None}
    IN  IF hits = {} THEN None
        ELSE DelimitedAt(s, CHOOSE i \in hits : \A k \in hits : i <= k, before, after)

SearchTotalPayable(s) ==
    LET hits == {i \in 1..Len(s) : TotalPayableAt(s, i) /= None}
    IN  IF hits = {} THEN None
        ELSE TotalPayableAt(s, CHOOSE i \in hits : \A k \in hits : i <= k)

extract_vat_total(text) ==
    LET m1 == SearchDelimited(text, Payable, <<"nis">>)
        m2 == SearchDelimited(text, <<"nis">>, Payable)
        m3 == SearchTotalPayable(text)
    IN  IF m1 /= None THEN parse_num(m1)
        ELSE IF m2 /= None THEN parse_num(m2)
             ELSE IF m3 /= None THEN parse_num(m3)
                  ELSE 0

\* ------------------------------------------------------------------------
\* Values held in the result: a number (hundredths) or a str
\* ------------------------------------------------------------------------

Num(n) == [t |-> "num", n |-> n, s |-> <<>>]

Text(s) == [t |-> "text", n |-> 0, s |-> s]

\* bool(v) of a stored value: a non-zero number, a non-empty str
ValueTruthy(v) == IF v.t = "num" THEN v.n /= 0 ELSE v.s /= <<>>

\* str(i) for an index i >= 0
RECURSIVE IntStr(_)
IntStr(i) ==
    LET d == <<"0", "1", "2", "3", "4", "5", "6", "7", "8", "9">>[(i % 10) + 1]
    IN  IF i < 10 THEN <<d>> ELSE IntStr(i \div 10) \o <<d>>

\* f'col_{i}', i counted from 0 as enumerate() counts
ColPlaceholder(i) == <<"c", "o", "l", "_">> \o IntStr(i)

StageKey == <<"_", "s", "t", "a", "g", "e">>

\* ------------------------------------------------------------------------
\* extract(): the milestone test, the headers, the rows
\* ------------------------------------------------------------------------

StageMarker == <<"shin", "lamed", "bet">>

StageMarkerReversed == <<"bet", "lamed", "shin">>

MinHeaderCells == 4

\* IsMilestoneTable with a defect: the stage-marker test is left out
IsMilestoneTableAnyHeader(table) ==
    /\ Len(table) >= 2
    /\ Len(table[1]) >= MinHeaderCells

\* IsMilestoneTable with a defect: the header-width test is left out
IsMilestoneTableAnyWidth(table) ==
    /\ Len(table) >= 2
    /\ LET header_text == JoinTruthy(table[1])
       IN  Contains(header_text, StageMarker) \/ Contains(header_text, StageMarkerReversed)

\* the three `continue` tests of the table loop, negated
IsMilestoneTable(table) ==
    /\ Len(table) >= 2
    /\ Len(table[1]) >= MinHeaderCells
    /\ LET header_text == JoinTruthy(table[1])
       IN  Contains(header_text, StageMarker) \/ Contains(header_text, StageMarkerReversed)

\* [fix_hebrew(str(h)) if h else f'col_{i}' for i, h in enumerate(header)]
BuildHeaders(header) ==
    [i \in 1..Len(header) |->
        IF Truthy(header[i]) THEN fix_hebrew(header[i]) ELSE ColPlaceholder(i - 1)]

skip_words ==
    { <<"samekh", "kaf", "vav", "memf", "sp", "kaf", "vav", "lamed", "lamed">>,
      <<"lamed", "lamed", "vav", "kaf", "sp", "memf", "vav", "kaf", "samekh">>,
      <<"samekh", "kaf", "vav", "memf", "sp", "mem", "tsadi", "tet", "bet", "resh">>,
      <<"resh", "bet", "tet", "tsadi", "mem", "sp", "memf", "vav", "kaf", "samekh">>,
      <<"samekh", "he", "quote", "kaf">> }

\* the three `continue` tests of the row loop: a row that builds no phase
RowSkipped(row) ==
    \/ row = <<>>
    \/ \E word \in skip_words : Contains(JoinTruthy(row), word)
    \/ \A i \in 1..Len(row) : ~Truthy(row[i])

\* raw_val of a cell: str(cell) if cell else '', newlines replaced, whitespace normalized
RawVal(cell) == NormalizeSpace(ReplaceNewlines(IF Truthy(cell) THEN cell ELSE <<>>))

ZeroLiterals == { <<"0">>, <<"0", ".", "0">>, <<"0", ".", "0", "0">> }

\* CellValue with a defect: the zero literals are not recognised, "0" stays text
CellValueNoZeroLiterals(cell) ==
    LET raw_val == RawVal(cell)
        num_val == parse_num(raw_val)
    IN  IF num_val /= 0 THEN Num(num_val) ELSE Text(fix_hebrew(raw_val))

\* the value stored for a cell: the number or the fixed text
CellValue(cell) ==
    LET raw_val == RawVal(cell)
        num_val == parse_num(raw_val)
    IN  IF num_val /= 0 \/ Strip(raw_val) \in ZeroLiterals
        THEN Num(num_val)
        ELSE Text(fix_hebrew(raw_val))

\* col_name of the cell at index i (from 1) of a row
ColName(hdrs, i) == IF i <= Len(hdrs) THEN hdrs[i] ELSE ColPlaceholder(i - 1)

\* phase[key] = val
Put(phase, key, val) ==
    [k \in (DOMAIN phase) \cup {key} |-> IF k = key THEN val ELSE phase[k]]

\* phase.get(key, default)
Get(phase, key, default) == IF key \in DOMAIN phase THEN phase[key] ELSE default

EmptyDict == [k \in {} |-> Num(0)]

\* the dict after the cells 1..n of the row have been stored
RECURSIVE PhaseCells(_, _, _)
PhaseCells(row, hdrs, n) ==
    IF n = 0 THEN EmptyDict
    ELSE Put(PhaseCells(row, hdrs, n - 1), ColName(hdrs, n), CellValue(row[n]))

\* BuildPhase with a defect: a cell beyond the header row is dropped instead of
\* being stored under its placeholder name
BuildPhaseWithinHeaders(row, hdrs) ==
    LET n == IF Len(row) < Len(hdrs) THEN Len(row) ELSE Len(hdrs)
        cells == PhaseCells(row, hdrs, n)
        stage_col == IF hdrs /= <<>> THEN hdrs[Len(hdrs)] ELSE <<"s", "t", "a", "g", "e">>
    IN  Put(cells, StageKey, Get(cells, stage_col, Text(<<>>)))

\* the phase of a row that is not skipped
BuildPhase(row, hdrs) ==
    LET cells == PhaseCells(row, hdrs, Len(row))
        stage_col == IF hdrs /= <<>> THEN hdrs[Len(hdrs)] ELSE <<"s", "t", "a", "g", "e">>
    IN  Put(cells, StageKey, Get(cells, stage_col, Text(<<>>)))

\* the rows 2..n of the table, each kept row as [phase, row]
RECURSIVE TablePhases(_, _, _)
TablePhases(table, hdrs, n) ==
    IF n < 2 THEN <<>>
    ELSE LET before == TablePhases(table, hdrs, n - 1)
         IN  IF RowSkipped(table[n]) THEN before
             ELSE Append(before, [phase |-> BuildPhase(table[n], hdrs), row |-> n])

\* ------------------------------------------------------------------------
\* extract(): totals
\* ------------------------------------------------------------------------

AmountToken == <<"samekh", "kaf", "vav", "memf">>

AccountToken == <<"het", "shin", "bet", "vav", "nunf">>

CumulativeToken == <<"mem", "tsadi", "tet", "bet", "resh">>

ThisInvoiceToken == <<"het", "shin", "bet", "vav", "nunf", "sp", "zayin", "he">>

OnInvoiceToken == <<"bet", "het", "shin", "bet", "vav", "nunf">>

IsContractHeader(h) ==
    Contains(h, AmountToken) /\ ~Contains(h, AccountToken) /\ ~Contains(h, CumulativeToken)

IsBilledHeader(h) == Contains(h, ThisInvoiceToken) \/ Contains(h, OnInvoiceToken)

\* LoopPick with a defect: the loop stops at its first match
LoopPickFirst(idx) == IF idx = {} THEN 0 ELSE CHOOSE i \in idx : \A j \in idx : i <= j

\* the index the `for h in headers` loop leaves selected among idx: each match
\* overwrites the one before, so the greatest (0: none)
LoopPick(idx) == IF idx = {} THEN 0 ELSE CHOOSE i \in idx : \A j \in idx : j <= i

\* contract_col after the header loop (None: no match)
ContractCol(hdrs) ==
    LET i == LoopPick({k \in 1..Len(hdrs) : IsContractHeader(hdrs[k])})
    IN  IF i = 0 THEN None ELSE hdrs[i]

\* billed_col after the header loop and the first-column fallback
BilledCol(hdrs) ==
    LET i == LoopPick({k \in 1..Len(hdrs) : IsBilledHeader(hdrs[k])})
        looped == IF i = 0 THEN None ELSE hdrs[i]
    IN  IF ~Truthy(looped) /\ hdrs /= <<>> THEN hdrs[1] ELSE looped

\* whether phase p overwrites contract_total
AssignsContract(p, ccol) == Truthy(ccol) /\ ValueTruthy(Get(p, ccol, Text(<<>>)))

\* ContractAfter with a defect: the amounts are added up
RECURSIVE ContractSum(_, _, _, _)
ContractSum(ps, ccol, start, n) ==
    IF n = 0 THEN start
    ELSE LET sofar == ContractSum(ps, ccol, start, n - 1)
         IN  IF AssignsContract(ps[n], ccol) /\ ps[n][ccol].t = "num" /\ sofar.t = "num"
             THEN Num(sofar.n + ps[n][ccol].n)
             ELSE sofar

\* data['contract_total'] after the phases 1..n
RECURSIVE ContractAfter(_, _, _, _)
ContractAfter(ps, ccol, start, n) ==
    IF n = 0 THEN start
    ELSE LET sofar == ContractAfter(ps, ccol, start, n - 1)
         IN  IF AssignsContract(ps[n], ccol) THEN ps[n][ccol] ELSE sofar

\* data['billed_total'] after the phases 1..n
RECURSIVE BilledAfter(_, _, _, _)
BilledAfter(ps, bcol, start, n) ==
    IF n = 0 THEN start
    ELSE LET sofar == BilledAfter(ps, bcol, start, n - 1)
             val == Get(ps[n], bcol, Num(0))
         IN  IF Truthy(bcol) /\ val.t = "num" THEN Num(sofar.n + val.n) ELSE sofar

\* ------------------------------------------------------------------------
\* What pdfplumber hands to extract(): page texts and tables
\* ------------------------------------------------------------------------

MaxPages == 1

MaxTables == 2

\* header and data cells
StagePlanning == <<"shin", "lamed", "bet", "sp", "tav", "kaf", "nun", "vav", "nunf">>

ContractSigning ==
    <<"het", "tav", "yod", "mem", "he", "sp", "ayin", "lamed", "sp",
      "he", "het", "vav", "zayin", "he">>

Form4 == <<"tet", "vav", "pe", "samekh", "sp", "4">>

CumulativeAmount ==
    <<"samekh", "kaf", "vav", "memf", "sp", "mem", "tsadi", "tet", "bet", "resh">>

TotalAmount == <<"samekh", "kaf", "vav", "memf", "sp", "kaf", "vav", "lamed", "lamed">>

GrandTotal == <<"samekh", "he", "quote", "kaf">>

Amount4 == <<"samekh", "kaf", "vav", "memf", "sp", "4">>

N1000 == <<"1", ",", "0", "0", "0">>

N2000 == <<"2", ",", "0", "0", "0">>

Abc == <<"a", "b", "c">>

\* the two-column table of the two-phase scenario
TblTwoColumns ==
    << <<AmountToken, StagePlanning>>,
       <<N1000, ContractSigning>>,
       <<N2000, Form4>> >>

\* the same two phases in a four-column table
TblFourColumns ==
    << <<AmountToken, OnInvoiceToken, None, StagePlanning>>,
       <<N1000, <<"0">>, Abc, ContractSigning>>,
       <<N2000, <<"0", ".", "0">>, None, Form4>> >>

\* a table extracted mirrored, with two amount and two billed columns, a short
\* row, a long row and a last row whose amount is 0
TblMirrored ==
    << <<Reverse(ThisInvoiceToken), Reverse(AmountToken), Reverse(Amount4),
         Reverse(OnInvoiceToken), StageMarkerReversed>>,
       <<<<"5">>, Abc>>,
       <<<<"7">>, N1000, N2000, <<"3">>, Reverse(ContractSigning), <<"nl", "a", "nl">>>>,
       <<<<"1">>, <<"5">>, <<"0">>, <<"2", ".", "5">>, Form4>> >>

\* a table with summary rows, an all-empty row and an empty row
TblSummaryRows ==
    << <<AmountToken, CumulativeAmount, None, StageMarker>>,
       <<<<"9", "0", "0">>, <<"9", "0", "0">>, None, ContractSigning>>,
       <<TotalAmount, <<"3", "0", "0">>, None, None>>,
       <<AmountToken, <<"kaf", "vav", "lamed", "lamed">>, None, None>>,
       <<Reverse(CumulativeAmount), <<"3", "0", "0">>, None, None>>,
       <<None, <<>>, None, None>>,
       <<>>,
       <<<<"4", "0", "0">>, <<"4", "0", "0">>, None, Reverse(GrandTotal)>>,
       <<<<"5", "0", "0">>, <<"5", "0", "0">>, None, GrandTotal>> >>

\* a table whose amount column holds text in its last row
TblTextAmount ==
    << <<AmountToken, <<"a">>, <<"b">>, StageMarker>>,
       <<N1000, <<"1">>, <<"0", "0">>, ContractSigning>>,
       <<Abc, <<"-", "0">>, <<"0", ".", "0", "0">>, Form4>> >>

\* a four-column table without the stage marker
TblNoMarker ==
    << <<AmountToken, OnInvoiceToken, <<"a">>, <<"b">>>>,
       <<N1000, <<"1">>, <<"2">>, Form4>> >>

\* a header row alone
TblHeaderOnly == << <<AmountToken, OnInvoiceToken, None, StagePlanning>> >>

Tables ==
    { TblTwoColumns, TblFourColumns, TblMirrored, TblSummaryRows, TblTextAmount,
      TblNoMarker, TblHeaderOnly }

\* the lists of at most n tables
RECURSIVE TableListsUpTo(_)
TableListsUpTo(n) ==
    IF n = 0 THEN {<<>>}
    ELSE LET shorter == TableListsUpTo(n - 1)
         IN  shorter \cup {Append(l, t) : l \in {x \in shorter : Len(x) = n - 1}, t \in Tables}

TableLists == TableListsUpTo(MaxTables)

\* what page.extract_text() can return: None, or a page naming the company and
\* the amount payable
PageTexts ==
    { None,
      <<"k", "o", "t", "nl">> \o Payable \o <<"sp", "1", ",", "1", "7", "0", "sp", "nis">> }

\* ------------------------------------------------------------------------
\* State
\* ------------------------------------------------------------------------

VARIABLES
    pc,              \* where the request is
    handle,          \* the pdfplumber document: "none", "open", "closed"
    num_pages,       \* len(pdf.pages)
    page,            \* index (from 1) of the page the loop is at
    full_text,
    all_tables,
    table,           \* index (from 1) of the table the loop is at
    company,         \* data['company']
    contract_total,  \* data['contract_total']
    billed_total,    \* data['billed_total']
    vat_total,       \* data['vat_total']
    phases,          \* data['phases']
    headers,         \* data['headers']
    contract_col,
    billed_col,
    phase_src,       \* history: for each phase, the table and row it was built from
    ui               \* what the handler shows

vars == <<pc, handle, num_pages, page, full_text, all_tables, table, company,
          contract_total, billed_total, vat_total, phases, headers, contract_col,
          billed_col, phase_src, ui>>

doc == <<handle, num_pages, page, full_text, all_tables>>

data == <<company, contract_total, billed_total, vat_total, phases, headers>>

locals == <<table, contract_col, billed_col, phase_src>>

handler == <<ui>>

Init ==
    /\ pc = "open"
    /\ handle = "none"
    /\ num_pages = 0
    /\ page = 1
    /\ full_text = <<>>
    /\ all_tables = <<>>
    /\ table = 1
    /\ company = <<>>
    /\ contract_total = Num(0)
    /\ billed_total = Num(0)
    /\ vat_total = Num(0)
    /\ phases = <<>>
    /\ headers = <<>>
    /\ contract_col = None
    /\ billed_col = None
    /\ phase_src = <<>>
    /\ ui = "spinner"

\* ------------------------------------------------------------------------
\* The with block
\* ------------------------------------------------------------------------

\* the handle after the with block is left by falling off its end
WithExit(h) == "closed"

\* WithUnwind with a defect: the document is closed by a plain close() after the
\* loops, which an exception skips
WithUnwindNoClose(h) == h

\* the handle after an exception leaves the with block
WithUnwind(h) == "closed"

\* pdfplumber.open(pdf_file) succeeds
Open ==
    /\ pc = "open"
    /\ handle' = "open"
    /\ \E n \in 0..MaxPages :
          /\ num_pages' = n
          /\ pc' = IF n = 0 THEN "meta" ELSE "page_text"
    /\ UNCHANGED <<page, full_text, all_tables, data, locals, handler>>

\* pdfplumber.open(pdf_file) raises: nothing was opened
OpenRaise ==
    /\ pc = "open"
    /\ pc' = "failed"
    /\ UNCHANGED <<doc, data, locals, handler>>

\* page_text = page.extract_text() or ''; full_text += page_text + '\n'
PageText ==
    /\ pc = "page_text"
    /\ \E t \in PageTexts :
          full_text' = full_text \o (IF Truthy(t) THEN t ELSE <<>>) \o <<"nl">>
    /\ pc' = "page_tables"
    /\ UNCHANGED <<handle, num_pages, page, all_tables, data, locals, handler>>

\* page.extract_text() raises
PageTextRaise ==
    /\ pc = "page_text"
    /\ handle' = WithUnwind(handle)
    /\ pc' = "failed"
    /\ UNCHANGED <<num_pages, page, full_text, all_tables, data, locals, handler>>

\* tables = page.extract_tables(); all_tables.extend(tables); next page
PageTables ==
    /\ pc = "page_tables"
    /\ \E ts \in TableLists :
          /\ Len(all_tables) + Len(ts) <= MaxTables
          /\ all_tables' = all_tables \o ts
    /\ page' = page + 1
    /\ pc' = IF page < num_pages THEN "page_text" ELSE "meta"
    /\ UNCHANGED <<handle, num_pages, full_text, data, locals, handler>>

\* page.extract_tables() raises
PageTablesRaise ==
    /\ pc = "page_tables"
    /\ handle' = WithUnwind(handle)
    /\ pc' = "failed"
    /\ UNCHANGED <<num_pages, page, full_text, all_tables, data, locals, handler>>

\* data['company'] = ...; data['vat_total'] = ...
Meta ==
    /\ pc = "meta"
    /\ company' = extract_company(full_text)
    /\ vat_total' = Num(extract_vat_total(full_text))
    /\ pc' = "tables"
    /\ UNCHANGED <<doc, contract_total, billed_total, phases, headers, locals, handler>>

\* one pass of `for table in all_tables` that ends in a `continue`
TableSkip ==
    /\ pc = "tables"
    /\ table <= Len(all_tables)
    /\ ~IsMilestoneTable(all_tables[table])
    /\ table' = table + 1
    /\ UNCHANGED <<pc, doc, data, contract_col, billed_col, phase_src, handler>>

\* one pass of `for table in all_tables` over a milestone table: its headers are
\* stored and each of its rows that is not skipped appends a phase
TableUse ==
    /\ pc = "tables"
    /\ table <= Len(all_tables)
    /\ IsMilestoneTable(all_tables[table])
    /\ LET t == all_tables[table]
           hdrs == BuildHeaders(t[1])
           built == TablePhases(t, hdrs, Len(t))
       IN  /\ headers' = hdrs
           /\ phases' = phases \o [i \in 1..Len(built) |-> built[i].phase]
           /\ phase_src' = phase_src \o
                 [i \in 1..Len(built) |-> [table |-> table, row |-> built[i].row]]
    /\ table' = table + 1
    /\ UNCHANGED <<pc, doc, company, contract_total, billed_total, vat_total,
                   contract_col, billed_col, handler>>

\* `for table in all_tables` is exhausted
TablesDone ==
    /\ pc = "tables"
    /\ table > Len(all_tables)
    /\ pc' = "totals"
    /\ UNCHANGED <<doc, data, locals, handler>>

\* if data['phases']: the columns are picked and the totals computed
Totals ==
    /\ pc = "totals"
    /\ IF phases /= <<>>
       THEN /\ contract_col' = ContractCol(headers)
            /\ billed_col' = BilledCol(headers)
            /\ contract_total' =
                  ContractAfter(phases, ContractCol(headers), contract_total, Len(phases))
            /\ billed_total' =
                  BilledAfter(phases, BilledCol(headers), billed_total, Len(phases))
       ELSE UNCHANGED <<contract_col, billed_col, contract_total, billed_total>>
    /\ pc' = "exit"
    /\ UNCHANGED <<doc, company, vat_total, phases, headers, table, phase_src, handler>>

\* the with block ends; return data
Return ==
    /\ pc = "exit"
    /\ handle' = WithExit(handle)
    /\ pc' = "returned"
    /\ UNCHANGED <<num_pages, page, full_text, all_tables, data, locals, handler>>

\* what the f-string f"{total:,.0f}" does with a stored value: a str has no such format
Formats(v) == v.t = "num"

\* the upload handler after extract() returned: to_tracking_rows gives one row
\* per phase, and `if rows` picks the summary or the "no phases found" warning
Handler ==
    /\ pc = "returned"
    /\ ui' = IF phases = <<>> THEN "warning"
             ELSE IF Formats(contract_total) /\ Formats(billed_total) /\ Formats(vat_total)
                  THEN "summary"
                  ELSE "error"
    /\ pc' = "done"
    /\ UNCHANGED <<doc, data, locals>>

Next ==
    \/ Open
    \/ OpenRaise
    \/ PageText
    \/ PageTextRaise
    \/ PageTables
    \/ PageTablesRaise
    \/ Meta
    \/ TableSkip
    \/ TableUse
    \/ TablesDone
    \/ Totals
    \/ Return
    \/ Handler

Spec == Init /\ [][Next]_vars

\* ------------------------------------------------------------------------
\* Properties
\* ------------------------------------------------------------------------

\* extract() has returned
Returned == pc \in {"returned", "done"}

\* the indices of the tables that pass the milestone test
Milestones == {i \in 1..Len(all_tables) : IsMilestoneTable(all_tables[i])}

FirstMilestone == CHOOSE i \in Milestones : \A j \in Milestones : i <= j

LastMilestone == CHOOSE i \in Milestones : \A j \in Milestones : j <= i

\* the row a phase was built from, and the headers of that row's table
SrcRow(i) == all_tables[phase_src[i].table][phase_src[i].row]

SrcHeaders(i) == BuildHeaders(all_tables[phase_src[i].table][1])

Names(hdrs) == {hdrs[k] : k \in 1..Len(hdrs)}

\* C1: only the first table that passes the milestone test is used: the
\* returned headers are built from its header row and every returned phase
\* comes from one of its rows.
C1_OnlyFirstTable ==
    (Returned /\ Milestones /= {}) =>
        /\ headers = BuildHeaders(all_tables[FirstMilestone][1])
        /\ \A i \in 1..Len(phases) : phase_src[i].table = FirstMilestone

\* C2 as stated: in every result the keys of every phase are exactly the
\* returned headers plus _stage, whatever the length of the data row.
C2_KeysAreHeaders ==
    Returned => \A i \in 1..Len(phases) : DOMAIN phases[i] = Names(headers) \cup {StageKey}

\* C2 as amended: the keys of a phase are the column names of the positions of
\* its row (the header of its own table inside the header row, col_<i> beyond
\* it) plus _stage; they are the returned headers plus _stage when the row is as
\* long as the header row and the table is the last one that passed the test.
C2_KeysAreRowColumns ==
    Returned =>
        \A i \in 1..Len(phases) :
            LET row == SrcRow(i)
                hdrs == SrcHeaders(i)
            IN  /\ DOMAIN phases[i] = {ColName(hdrs, k) : k \in 1..Len(row)} \cup {StageKey}
                /\ (Len(row) = Len(hdrs) /\ phase_src[i].table = LastMilestone)
                      => DOMAIN phases[i] = Names(headers) \cup {StageKey}

\* a result with a phase from a row shorter than its header row, one from a row
\* longer than it and one from a row of the same length
C2_Witness ==
    /\ Returned
    /\ \E i \in 1..Len(phases) : Len(SrcRow(i)) < Len(SrcHeaders(i))
    /\ \E i \in 1..Len(phases) : Len(SrcRow(i)) > Len(SrcHeaders(i))
    /\ \E i \in 1..Len(phases) :
          Len(SrcRow(i)) = Len(SrcHeaders(i)) /\ phase_src[i].table = LastMilestone

\* the summary-row markers in canonical and in reversed form
SummaryMarkers ==
    { TotalAmount, Reverse(TotalAmount), CumulativeAmount, Reverse(CumulativeAmount),
      GrandTotal, Reverse(GrandTotal) }

\* C3: a row whose joined non-empty cells contain a summary-row marker, in
\* canonical or reversed form, builds no phase.
C3_NoSummaryRowPhase ==
    \A i \in 1..Len(phases) :
        \A m \in SummaryMarkers : ~Contains(JoinTruthy(SrcRow(i)), m)

\* C4: in every result the three totals are numbers, and each is 0 when no
\* pattern or column was found for it.
C4_TotalsAreNumbers ==
    Returned =>
        /\ contract_total.t = "num"
        /\ billed_total.t = "num"
        /\ vat_total.t = "num"
        /\ (phases = <<>> \/ contract_col = None) => contract_total = Num(0)
        /\ phases = <<>> => billed_total = Num(0)

\* C5: the document is open in no final state of extract(), returned or failed.
C5_HandleReleased == pc \in {"returned", "done", "failed"} => handle /= "open"

\* text extraction succeeded on a page and table extraction of that page raised
C5_Witness == pc = "failed" /\ full_text /= <<>> /\ handle = "closed"

\* no header row of an extracted table contains the stage marker
NoStageMarker ==
    \A i \in 1..Len(all_tables) :
        all_tables[i] /= <<>> =>
            LET header_text == JoinTruthy(all_tables[i][1])
            IN  ~Contains(header_text, StageMarker) /\ ~Contains(header_text, StageMarkerReversed)

\* C6: when no header row contains the stage marker, the table scan raises
\* nothing, phases and headers are returned empty, and the handler shows the
\* "no phases found" warning.
C6_NoMarkerNoPhases ==
    NoStageMarker =>
        /\ pc = "failed" => company = <<>> /\ table = 1
        /\ Returned => phases = <<>> /\ headers = <<>>
        /\ pc = "done" => ui = "warning"

\* the handler is done with a document whose one table has four columns and no
\* stage marker
C6_Witness == pc = "done" /\ all_tables = <<TblNoMarker>> /\ ui = "warning"

\* C7 as stated: the two-column table of the scenario gives two phases, the
\* first with _stage "contract signing", and contract_total 2000.0.
C7_TwoColumnScenario ==
    (Returned /\ all_tables = <<TblTwoColumns>>) =>
        /\ Len(phases) = 2
        /\ phases[1][StageKey] = Text(ContractSigning)
        /\ contract_total = Num(200000)

\* C7 as amended: the two-column table is rejected (no phases, no headers,
\* contract_total 0); the same two phases in a table with a four-cell header
\* row give two phases, the first with _stage "contract signing", and
\* contract_total 2000.0.
C7_ScenarioNeedsFourColumns ==
    /\ (Returned /\ all_tables = <<TblTwoColumns>>) =>
          /\ phases = <<>>
          /\ headers = <<>>
          /\ contract_total = Num(0)
    /\ (Returned /\ all_tables = <<TblFourColumns>>) =>
          /\ Len(phases) = 2
          /\ phases[1][StageKey] = Text(ContractSigning)
          /\ contract_total = Num(200000)

\* extract() has returned for the two-column table alone
C7_Witness == pc = "returned" /\ all_tables = <<TblTwoColumns>> /\ phases = <<>>

\* the totals have been computed from at least one phase
Aggregated == pc \in {"exit", "returned", "done"} /\ phases /= <<>>

ContractMatches == {k \in 1..Len(headers) : IsContractHeader(headers[k])}

BilledMatches == {k \in 1..Len(headers) : IsBilledHeader(headers[k])}

\* C8 as stated: each column is the first match in header order, the billed
\* column the first header when nothing matches.
C8_FirstMatch ==
    Aggregated =>
        /\ \A k \in ContractMatches :
              (\A j \in ContractMatches : k <= j) => contract_col = headers[k]
        /\ \A k \in BilledMatches :
              (\A j \in BilledMatches : k <= j) => billed_col = headers[k]
        /\ BilledMatches = {} => billed_col = headers[1]

\* C8 as amended: each column is the last match in header order; no contract
\* column when nothing matches, the first header as billed column when nothing
\* matches.
C8_LastMatch ==
    Aggregated =>
        /\ \A k \in ContractMatches :
              (\A j \in ContractMatches : j <= k) => contract_col = headers[k]
        /\ ContractMatches = {} => contract_col = None
        /\ \A k \in BilledMatches :
              (\A j \in BilledMatches : j <= k) => billed_col = headers[k]
        /\ BilledMatches = {} => billed_col = headers[1]

\* the columns were picked among two contract matches with different names and
\* two billed matches with different names
C8_Witness ==
    /\ Aggregated
    /\ \E j, k \in ContractMatches : headers[j] /= headers[k]
    /\ \E j, k \in BilledMatches : headers[j] /= headers[k]

\* C9 as stated: with a contract column and phases, contract_total is the value
\* the last phase holds under the contract column.
C9_LastPhaseValue ==
    (Aggregated /\ contract_col /= None /\ contract_col \in DOMAIN phases[Len(phases)]) =>
        contract_total = phases[Len(phases)][contract_col]

\* the phases that hold a truthy value under the contract column
Qualifying ==
    {i \in 1..Len(phases) :
        contract_col \in DOMAIN phases[i] /\ ValueTruthy(phases[i][contract_col])}

\* C9 as amended: with a contract column and phases, contract_total is the value
\* under the contract column of the last phase that holds a truthy value there
\* (a non-zero number or a non-empty text), and 0 when no phase does; it is
\* overwritten, not summed.
C9_LastTruthyValue ==
    (Aggregated /\ contract_col /= None) =>
        /\ \A i \in Qualifying :
              (\A j \in Qualifying : j <= i) => contract_total = phases[i][contract_col]
        /\ Qualifying = {} => contract_total = Num(0)

\* the last phase holds 0 under the contract column and an earlier phase a
\* non-zero amount
C9_Witness ==
    /\ Aggregated
    /\ contract_col /= None
    /\ contract_col \in DOMAIN phases[Len(phases)]
    /\ ~ValueTruthy(phases[Len(phases)][contract_col])
    /\ Qualifying /= {}

\* the cell positions of a row whose column name no later position takes
LastWriters(row, hdrs) ==
    {k \in 1..Len(row) : \A j \in (k + 1)..Len(row) : ColName(hdrs, j) /= ColName(hdrs, k)}

\* C10: in every result the value stored under a column's name is the parsed
\* number when it is non-zero or the trimmed raw value is "0", "0.0" or "0.00",
\* and the normalized text otherwise; "0" is stored as the number 0 and "abc"
\* as the text "abc".
C10_CellTyping ==
    Returned =>
        \A i \in 1..Len(phases) :
            LET row == SrcRow(i)
                hdrs == SrcHeaders(i)
            IN  \A k \in LastWriters(row, hdrs) :
                    LET raw == RawVal(row[k])
                        num == parse_num(raw)
                        stored == phases[i][ColName(hdrs, k)]
                    IN  /\ IF num /= 0
                              \/ Strip(raw) \in { <<"0">>, <<"0", ".", "0">>, <<"0", ".", "0", "0">> }
                           THEN stored = Num(num)
                           ELSE stored = Text(fix_hebrew(raw))
                        /\ row[k] = <<"0">> => stored = Num(0)
                        /\ row[k] = Abc => stored = Text(Abc)

\* a phase built from a row with a cell "0" and a cell "abc"
C10_Witness ==
    /\ Returned
    /\ \E i \in 1..Len(phases) :
          /\ \E k \in LastWriters(SrcRow(i), SrcHeaders(i)) : SrcRow(i)[k] = <<"0">>
          /\ \E k \in LastWriters(SrcRow(i), SrcHeaders(i)) : SrcRow(i)[k] = Abc

====
